---- MODULE Spec2Model ----
(***************************************************************************)
(* Composite specifications of krocos/gospec: leaf predicates are wrapped  *)
(* by New; And/Or/Xor/Not allocate new composite nodes over them;          *)
(* IsSatisfiedBy walks a tree depth-first with short-circuit and error     *)
(* propagation; Describe renders the tree as a parenthesised infix string. *)
(***************************************************************************)
EXTENDS Naturals, Sequences, FiniteSets, TLC

\* ---------------------------------------------------------------- bounds
NumLeaves == 2
MaxComposites == 2
MaxOthers == 1

\* ------------------------------------------------------- leaf predicates
Nil == "nil"

\* What a caller-supplied leaf may return from IsSatisfiedBy: any bool with
\* a nil error or with one of two distinct error values (Go allows a true
\* bool beside a non-nil error).
Outcomes ==
    { [ok |-> TRUE,  err |-> Nil],
      [ok |-> FALSE, err |-> Nil],
      [ok |-> FALSE, err |-> "e1"],
      [ok |-> TRUE,  err |-> "e2"] }

Leaves == 1..NumLeaves

\* A candidate is known to the engine only through what each leaf returns
\* on it.
Candidates == [Leaves -> Outcomes]

LeafText(l) == IF l = 1 THEN "A" ELSE IF l = 2 THEN "B" ELSE IF l = 3 THEN "C" ELSE "D"

\* ----------------------------------------------------------------- state
VARIABLES
    heap,       \* the nodes allocated so far, by address 1..Len(heap)
    operators,  \* the process-wide operator vocabulary
    ret         \* the most recent call and what it returned

vars == <<heap, operators, ret>>

\* New(initial): the builder embedded in a node wraps that node.
New(initial) == [Satisfiable |-> initial]

\* A leaf as the tests declare it: s.Spec = gospec.New(s).
Leaf(self) == [kind |-> "leaf", Spec |-> New(self), text |-> LeafText(self)]

newAndSpec(h, conditions) ==
    Append(h, [kind |-> "and", Spec |-> New(Len(h) + 1), conditions |-> conditions])

newOrSpec(h, conditions) ==
    Append(h, [kind |-> "or", Spec |-> New(Len(h) + 1), conditions |-> conditions])

newXorSpec(h, left, right) ==
    Append(h, [kind |-> "xor", Spec |-> New(Len(h) + 1), left |-> left, right |-> right])

newNotSpec(h, condition) ==
    Append(h, [kind |-> "not", Spec |-> New(Len(h) + 1), condition |-> condition])

\* compositeSpec.And / Or / Xor / Not on the builder s = h[self].Spec.

\* (mutation) And extends a receiving conjunction in place instead of
\* allocating a new node.
compositeAndInPlace(h, self, condition, others) ==
    IF h[self].kind = "and"
    THEN [h EXCEPT ![self].conditions = @ \o <<condition>> \o others]
    ELSE newAndSpec(h, <<h[self].Spec.Satisfiable, condition>> \o others)

\* (mutation) And ignores the variadic operands.
compositeAndBinary(h, self, condition, others) ==
    newAndSpec(h, <<h[self].Spec.Satisfiable, condition>>)

compositeAnd(h, self, condition, others) ==
    newAndSpec(h, <<h[self].Spec.Satisfiable, condition>> \o others)

\* (mutation) Or puts its argument before its receiver.
compositeOrSwapped(h, self, condition, others) ==
    newOrSpec(h, <<condition, h[self].Spec.Satisfiable>> \o others)

compositeOr(h, self, condition, others) ==
    newOrSpec(h, <<h[self].Spec.Satisfiable, condition>> \o others)

compositeXor(h, self, condition) ==
    newXorSpec(h, h[self].Spec.Satisfiable, condition)

compositeNot(h, self) ==
    newNotSpec(h, h[self].Spec.Satisfiable)

\* ------------------------------------------------------------ evaluation
\* A call of IsSatisfiedBy returns [ok, err] and leaves a log: one entry per
\* IsSatisfiedBy invoked during the call, in invocation order, with its
\* nesting depth (0 for the call itself) and what it returned.
Entry(n, d, ok, err) == [node |-> n, depth |-> d, ok |-> ok, err |-> err]

Returned(n, d, ok, err, inner) ==
    [ok |-> ok, err |-> err, log |-> <<Entry(n, d, ok, err)>> \o inner]

RECURSIVE IsSatisfiedBy(_, _, _, _)
RECURSIVE andLoop(_, _, _, _, _, _)
RECURSIVE orLoop(_, _, _, _, _, _)
RECURSIVE andLoopSkipsFalse(_, _, _, _, _, _)
RECURSIVE orLoopAsAnd(_, _, _, _, _, _)

\* (mutation) the conjunction's loop continues past an unsatisfied child.
andLoopSkipsFalse(h, conditions, i, x, d, log) ==
    IF i > Len(conditions) THEN [ok |-> TRUE, err |-> Nil, log |-> log]
    ELSE LET r == IsSatisfiedBy(h, conditions[i], x, d + 1) IN
         IF r.err # Nil THEN [ok |-> FALSE, err |-> r.err, log |-> log \o r.log]
         ELSE andLoopSkipsFalse(h, conditions, i + 1, x, d, log \o r.log)

\* for _, condition := range s.conditions, from index i, with the log so far
andLoop(h, conditions, i, x, d, log) ==
    IF i > Len(conditions) THEN [ok |-> TRUE, err |-> Nil, log |-> log]
    ELSE LET r == IsSatisfiedBy(h, conditions[i], x, d + 1) IN
         IF r.err # Nil THEN [ok |-> FALSE, err |-> r.err, log |-> log \o r.log]
         ELSE IF ~r.ok THEN [ok |-> FALSE, err |-> Nil, log |-> log \o r.log]
         ELSE andLoop(h, conditions, i + 1, x, d, log \o r.log)

\* (mutation) the disjunction's loop is the conjunction's, its test not flipped.
orLoopAsAnd(h, conditions, i, x, d, log) ==
    IF i > Len(conditions) THEN [ok |-> TRUE, err |-> Nil, log |-> log]
    ELSE LET r == IsSatisfiedBy(h, conditions[i], x, d + 1) IN
         IF r.err # Nil THEN [ok |-> FALSE, err |-> r.err, log |-> log \o r.log]
         ELSE IF ~r.ok THEN [ok |-> FALSE, err |-> Nil, log |-> log \o r.log]
         ELSE orLoopAsAnd(h, conditions, i + 1, x, d, log \o r.log)

orLoop(h, conditions, i, x, d, log) ==
    IF i > Len(conditions) THEN [ok |-> FALSE, err |-> Nil, log |-> log]
    ELSE LET r == IsSatisfiedBy(h, conditions[i], x, d + 1) IN
         IF r.err # Nil THEN [ok |-> FALSE, err |-> r.err, log |-> log \o r.log]
         ELSE IF r.ok THEN [ok |-> TRUE, err |-> Nil, log |-> log \o r.log]
         ELSE orLoop(h, conditions, i + 1, x, d, log \o r.log)

andIsSatisfiedBy(h, n, x, d) ==
    LET r == andLoop(h, h[n].conditions, 1, x, d, <<>>) IN
    Returned(n, d, r.ok, r.err, r.log)

orIsSatisfiedBy(h, n, x, d) ==
    LET r == orLoop(h, h[n].conditions, 1, x, d, <<>>) IN
    Returned(n, d, r.ok, r.err, r.log)

\* (mutation) exclusive-or evaluates its right side before looking at the
\* left side's error.
xorEvaluatesBoth(h, n, x, d) ==
    LET l == IsSatisfiedBy(h, h[n].left, x, d + 1)
        r == IsSatisfiedBy(h, h[n].right, x, d + 1) IN
    IF l.err # Nil THEN Returned(n, d, FALSE, l.err, l.log \o r.log)
    ELSE IF r.err # Nil THEN Returned(n, d, FALSE, r.err, l.log \o r.log)
    ELSE Returned(n, d, l.ok # r.ok, Nil, l.log \o r.log)

\* (mutation) exclusive-or computed as inclusive or.
xorAsOr(h, n, x, d) ==
    LET l == IsSatisfiedBy(h, h[n].left, x, d + 1) IN
    IF l.err # Nil THEN Returned(n, d, FALSE, l.err, l.log)
    ELSE LET r == IsSatisfiedBy(h, h[n].right, x, d + 1) IN
         IF r.err # Nil THEN Returned(n, d, FALSE, r.err, l.log \o r.log)
         ELSE Returned(n, d, l.ok \/ r.ok, Nil, l.log \o r.log)

\* (mutation) exclusive-or computed as "left and not right".
xorAsDifference(h, n, x, d) ==
    LET l == IsSatisfiedBy(h, h[n].left, x, d + 1) IN
    IF l.err # Nil THEN Returned(n, d, FALSE, l.err, l.log)
    ELSE LET r == IsSatisfiedBy(h, h[n].right, x, d + 1) IN
         IF r.err # Nil THEN Returned(n, d, FALSE, r.err, l.log \o r.log)
         ELSE Returned(n, d, l.ok /\ ~r.ok, Nil, l.log \o r.log)

xorIsSatisfiedBy(h, n, x, d) ==
    LET l == IsSatisfiedBy(h, h[n].left, x, d + 1) IN
    IF l.err # Nil THEN Returned(n, d, FALSE, l.err, l.log)
    ELSE LET r == IsSatisfiedBy(h, h[n].right, x, d + 1) IN
         IF r.err # Nil THEN Returned(n, d, FALSE, r.err, l.log \o r.log)
         ELSE Returned(n, d, l.ok # r.ok, Nil, l.log \o r.log)

\* (mutation) negation swallows its child's error.
notDropsError(h, n, x, d) ==
    LET b == IsSatisfiedBy(h, h[n].condition, x, d + 1) IN
    Returned(n, d, ~b.ok, Nil, b.log)

notIsSatisfiedBy(h, n, x, d) ==
    LET b == IsSatisfiedBy(h, h[n].condition, x, d + 1) IN
    IF b.err # Nil THEN Returned(n, d, FALSE, b.err, b.log)
    ELSE Returned(n, d, ~b.ok, Nil, b.log)

\* The leaf's own IsSatisfiedBy: whatever the caller's predicate returns.
leafIsSatisfiedBy(h, n, x, d) == Returned(n, d, x[n].ok, x[n].err, <<>>)

IsSatisfiedBy(h, n, x, d) ==
    CASE h[n].kind = "leaf" -> leafIsSatisfiedBy(h, n, x, d)
      [] h[n].kind = "and"  -> andIsSatisfiedBy(h, n, x, d)
      [] h[n].kind = "or"   -> orIsSatisfiedBy(h, n, x, d)
      [] h[n].kind = "xor"  -> xorIsSatisfiedBy(h, n, x, d)
      [] h[n].kind = "not"  -> notIsSatisfiedBy(h, n, x, d)

\* ----------------------------------------------------------- description
RECURSIVE Describe(_, _)
RECURSIVE Join(_, _)

\* strings.Join(descriptions, sep)
Join(descriptions, sep) ==
    IF Len(descriptions) = 0 THEN ""
    ELSE IF Len(descriptions) = 1 THEN descriptions[1]
    ELSE descriptions[1] \o sep \o Join(Tail(descriptions), sep)

descriptionsOf(h, conditions) ==
    [i \in 1..Len(conditions) |-> Describe(h, conditions[i])]

andDescribe(h, n) == "(" \o Join(descriptionsOf(h, h[n].conditions), " AND ") \o ")"

orDescribe(h, n) == "(" \o Join(descriptionsOf(h, h[n].conditions), " OR ") \o ")"

xorDescribe(h, n) == "(" \o Describe(h, h[n].left) \o " XOR " \o Describe(h, h[n].right) \o ")"

notDescribe(h, n) == "NOT(" \o Describe(h, h[n].condition) \o ")"

Describe(h, n) ==
    CASE h[n].kind = "leaf" -> h[n].text
      [] h[n].kind = "and"  -> andDescribe(h, n)
      [] h[n].kind = "or"   -> orDescribe(h, n)
      [] h[n].kind = "xor"  -> xorDescribe(h, n)
      [] h[n].kind = "not"  -> notDescribe(h, n)

\* ------------------------------------------------------------ vocabulary
DefaultOperators == [and |-> "AND", or |-> "OR", xor |-> "XOR", not |-> "NOT"]
SymbolOperators == [and |-> "&&", or |-> "||", xor |-> "!=", not |-> "!"]
Vocabularies == {DefaultOperators, SymbolOperators}

\* --------------------------------------------------------------- actions
Nodes == 1..Len(heap)

\* The nodes the combinators allocated.
Composites == Nodes \ Leaves

OthersArgs == UNION { [1..k -> Nodes] : k \in 0..MaxOthers }

Init ==
    /\ heap = [l \in Leaves |-> Leaf(l)]
    /\ operators = DefaultOperators
    /\ ret = [op |-> "none"]

And(self, condition, others) ==
    /\ Len(heap) < NumLeaves + MaxComposites
    /\ heap' = compositeAnd(heap, self, condition, others)
    /\ ret' = [op |-> "And", self |-> self, condition |-> condition,
               others |-> others, node |-> Len(heap')]
    /\ UNCHANGED operators

Or(self, condition, others) ==
    /\ Len(heap) < NumLeaves + MaxComposites
    /\ heap' = compositeOr(heap, self, condition, others)
    /\ ret' = [op |-> "Or", self |-> self, condition |-> condition,
               others |-> others, node |-> Len(heap')]
    /\ UNCHANGED operators

Xor(self, condition) ==
    /\ Len(heap) < NumLeaves + MaxComposites
    /\ heap' = compositeXor(heap, self, condition)
    /\ ret' = [op |-> "Xor", self |-> self, condition |-> condition, node |-> Len(heap')]
    /\ UNCHANGED operators

Not(self) ==
    /\ Len(heap) < NumLeaves + MaxComposites
    /\ heap' = compositeNot(heap, self)
    /\ ret' = [op |-> "Not", self |-> self, node |-> Len(heap')]
    /\ UNCHANGED operators

Evaluate(n, x) ==
    /\ LET r == IsSatisfiedBy(heap, n, x, 0) IN
       ret' = [op |-> "IsSatisfiedBy", node |-> n, ok |-> r.ok, err |-> r.err, log |-> r.log]
    /\ UNCHANGED <<heap, operators>>

Render(n) ==
    /\ ret' = [op |-> "Describe", node |-> n, text |-> Describe(heap, n)]
    /\ UNCHANGED <<heap, operators>>

SetOperators(v) ==
    /\ operators' = v
    /\ ret' = [op |-> "SetOperators"]
    /\ UNCHANGED heap

Next ==
    \/ \E self \in Nodes, condition \in Nodes, others \in OthersArgs : And(self, condition, others)
    \/ \E self \in Nodes, condition \in Nodes, others \in OthersArgs : Or(self, condition, others)
    \/ \E self \in Nodes, condition \in Nodes : Xor(self, condition)
    \/ \E self \in Nodes : Not(self)
    \/ \E n \in Composites, x \in Candidates : Evaluate(n, x)
    \/ \E n \in Composites : Render(n)
    \/ \E v \in Vocabularies : SetOperators(v)

Spec == Init /\ [][Next]_vars

\* ------------------------------------------------- reading a call's log
IsCall == ret.op = "IsSatisfiedBy"

CallOn(kinds) == IsCall /\ heap[ret.node].kind \in kinds

\* The invocations the called node made itself, in order.
Direct(log) == SelectSeq(log, LAMBDA e : e.depth = 1)

\* The leaf predicates a call invoked, in order.
LeafCalls(h, log) ==
    LET s == SelectSeq(log, LAMBDA e : h[e.node].kind = "leaf") IN
    [i \in 1..Len(s) |-> s[i].node]

\* The candidates on which the leaves return what the log shows.
Consistent(log) ==
    { x \in Candidates :
        \A i \in 1..Len(log) :
            heap[log[i].node].kind = "leaf"
                => x[log[i].node] = [ok |-> log[i].ok, err |-> log[i].err] }

ErrorFree(x) == \A l \in DOMAIN x : x[l].err = Nil

\* The ordinary boolean value of the expression a tree stands for.
RECURSIVE BoolValue(_, _, _)
BoolValue(h, n, x) ==
    CASE h[n].kind = "leaf" -> x[n].ok
      [] h[n].kind = "and"  -> \A i \in 1..Len(h[n].conditions) : BoolValue(h, h[n].conditions[i], x)
      [] h[n].kind = "or"   -> \E i \in 1..Len(h[n].conditions) : BoolValue(h, h[n].conditions[i], x)
      [] h[n].kind = "xor"  -> BoolValue(h, h[n].left, x) # BoolValue(h, h[n].right, x)
      [] h[n].kind = "not"  -> ~BoolValue(h, h[n].condition, x)

\* ---------------------------------------------------------------- claims

\* C1: when a leaf returns a non-nil error during a call of IsSatisfiedBy on
\* a composite root, that leaf is the last thing the call invokes and the
\* root returns false with that same error value.
C1_ErrorAborts ==
    CallOn({"and", "or", "xor", "not"}) =>
        \A i \in 1..Len(ret.log) :
            (heap[ret.log[i].node].kind = "leaf" /\ ret.log[i].err # Nil)
                => /\ i = Len(ret.log)
                   /\ ret.ok = FALSE
                   /\ ret.err = ret.log[i].err

\* errorPredicate.And(anything): the first operand fails with a true bool
\* beside its error, nothing else is invoked, the root returns (false, e2).
C1_Witness ==
    /\ CallOn({"and"})
    /\ Len(heap[ret.node].conditions) >= 2
    /\ Len(ret.log) = 2
    /\ ret.log[2].ok = TRUE /\ ret.log[2].err = "e2"
    /\ ret.ok = FALSE /\ ret.err = "e2"

\* C2: And stores the receiver, then condition, then others; a call on a
\* conjunction invokes a prefix of its children in that order, goes past a
\* child only when it returned true, and on a child returning false stops
\* there with (false, nil).
C2_AndOrderShortCircuit ==
    /\ ret.op = "And" =>
          /\ heap[ret.node].kind = "and"
          /\ heap[ret.node].conditions = <<ret.self, ret.condition>> \o ret.others
    /\ CallOn({"and"}) =>
          LET D == Direct(ret.log)
              conditions == heap[ret.node].conditions IN
          /\ Len(D) >= 1 /\ Len(D) <= Len(conditions)
          /\ \A j \in 1..Len(D) : D[j].node = conditions[j]
          /\ \A j \in 1..(Len(D) - 1) : D[j].ok /\ D[j].err = Nil
          /\ \A j \in 1..Len(D) :
                (~D[j].ok /\ D[j].err = Nil)
                    => j = Len(D) /\ ret.ok = FALSE /\ ret.err = Nil

\* falsePredicate.And(other): only the first child is invoked.
C2_Witness ==
    /\ CallOn({"and"})
    /\ heap[ret.node].conditions[1] # heap[ret.node].conditions[2]
    /\ Len(Direct(ret.log)) = 1
    /\ ~Direct(ret.log)[1].ok /\ Direct(ret.log)[1].err = Nil
    /\ ret.ok = FALSE /\ ret.err = Nil

\* C3: Or stores the receiver, then condition, then others; a call on a
\* disjunction invokes a prefix of its children in that order, stops at the
\* first child returning true with (true, nil), and returns (false, nil)
\* after invoking all of them when every child returned false.
C3_OrOrderShortCircuit ==
    /\ ret.op = "Or" =>
          /\ heap[ret.node].kind = "or"
          /\ heap[ret.node].conditions = <<ret.self, ret.condition>> \o ret.others
    /\ CallOn({"or"}) =>
          LET D == Direct(ret.log)
              conditions == heap[ret.node].conditions IN
          /\ Len(D) >= 1 /\ Len(D) <= Len(conditions)
          /\ \A j \in 1..Len(D) : D[j].node = conditions[j]
          /\ \A j \in 1..(Len(D) - 1) : ~D[j].ok /\ D[j].err = Nil
          /\ \A j \in 1..Len(D) :
                (D[j].ok /\ D[j].err = Nil)
                    => j = Len(D) /\ ret.ok = TRUE /\ ret.err = Nil
          /\ (\A j \in 1..Len(D) : ~D[j].ok /\ D[j].err = Nil)
                => Len(D) = Len(conditions) /\ ret.ok = FALSE /\ ret.err = Nil

\* truePredicate.Or(other): only the first child is invoked.
C3_Witness ==
    /\ CallOn({"or"})
    /\ heap[ret.node].conditions[1] # heap[ret.node].conditions[2]
    /\ Len(Direct(ret.log)) = 1
    /\ Direct(ret.log)[1].ok /\ Direct(ret.log)[1].err = Nil
    /\ ret.ok = TRUE /\ ret.err = Nil

\* --------------------------------------------- the document scenario
\* TestCompositeSpec: four documents an hour apart, five leaf predicates,
\*   spec = dateLowerNow.And(titleFirst.And(contentFirst).Or(titleThird.And(contentThird)))
\* Dates are minutes of 2023-06-27 (UTC); titles and contents are their words.
Docs ==
    << [Title |-> <<"First", "title">>,  Content |-> <<"First", "doc", "content">>,  Date |-> 20 * 60 + 56],
       [Title |-> <<"Second", "title">>, Content |-> <<"Second", "doc", "content">>, Date |-> 21 * 60 + 56],
       [Title |-> <<"Third", "title">>,  Content |-> <<"Third", "doc", "content">>,  Date |-> 22 * 60 + 56],
       [Title |-> <<"Fourth", "title">>, Content |-> <<"Fourth", "doc", "content">>, Date |-> 23 * 60 + 56] >>

TitleContainsWordSpec(word, candidate) ==
    \E i \in 1..Len(candidate.Title) : candidate.Title[i] = word

ContentContainsWordSpec(word, candidate) ==
    \E i \in 1..Len(candidate.Content) : candidate.Content[i] = word

DateLowerSpec(date, candidate) == date > candidate.Date

\* leaves 1..5: titleContainsFirst, titleContainsThird, contentContainsFirst,
\* contentContainsThird, dateLowerNowSpec
DocLeafNames == <<"titleContainsFirst", "titleContainsThird", "contentContainsFirst",
                  "contentContainsThird", "dateLowerNowSpec">>

DocCandidate(doc) ==
    [l \in 1..Len(DocLeafNames) |->
        [ok |-> CASE l = 1 -> TitleContainsWordSpec("First", doc)
                  [] l = 2 -> TitleContainsWordSpec("Third", doc)
                  [] l = 3 -> ContentContainsWordSpec("First", doc)
                  [] l = 4 -> ContentContainsWordSpec("Third", doc)
                  [] l = 5 -> DateLowerSpec(23 * 60, doc),
         err |-> Nil]]

DocHeap ==
    LET leaves == [l \in 1..Len(DocLeafNames) |-> Leaf(l)]
        first == compositeAnd(leaves, 1, 3, <<>>)
        third == compositeAnd(first, 2, 4, <<>>)
        contentSpec == compositeOr(third, Len(first), Len(third), <<>>)
    IN  compositeAnd(contentSpec, 5, Len(contentSpec), <<>>)

TestCompositeSpec ==
    [i \in 1..Len(Docs) |-> IsSatisfiedBy(DocHeap, Len(DocHeap), DocCandidate(Docs[i]), 0).ok]

\* C4: a call on a conjunction or disjunction whose leaves return no error
\* returns (v, nil) with v the ordinary boolean value of the expression over
\* the leaves' results, nested operands included; the document scenario
\* yields true, false, true, false.
C4_BooleanValue ==
    /\ CallOn({"and", "or"}) =>
          \A x \in Consistent(ret.log) :
              ErrorFree(x) => ret.err = Nil /\ ret.ok = BoolValue(heap, ret.node, x)
    /\ TestCompositeSpec = <<TRUE, FALSE, TRUE, FALSE>>

\* a.And(b).Or(c) with the conjunction false and c true.
C4_Witness ==
    /\ CallOn({"or"})
    /\ heap[heap[ret.node].conditions[1]].kind = "and"
    /\ Len(Direct(ret.log)) = 2
    /\ ~Direct(ret.log)[1].ok
    /\ ret.ok = TRUE /\ ret.err = Nil

\* C5: Xor stores receiver and argument as left and right; a call invokes
\* left, then right unless left failed, each once; when neither fails it
\* returns (left # right, nil).
C5_XorTruthTable ==
    /\ ret.op = "Xor" =>
          /\ heap[ret.node].kind = "xor"
          /\ heap[ret.node].left = ret.self
          /\ heap[ret.node].right = ret.condition
    /\ CallOn({"xor"}) =>
          LET D == Direct(ret.log) IN
          /\ Len(D) \in {1, 2}
          /\ D[1].node = heap[ret.node].left
          /\ D[1].err = Nil => Len(D) = 2 /\ D[2].node = heap[ret.node].right
          /\ (\A j \in 1..Len(D) : D[j].err = Nil)
                => ret.err = Nil /\ ret.ok = (D[1].ok # D[2].ok)

\* (T, T): both sides invoked, the result is false.
C5_Witness ==
    /\ CallOn({"xor"})
    /\ heap[ret.node].left # heap[ret.node].right
    /\ Len(Direct(ret.log)) = 2
    /\ Direct(ret.log)[1].ok /\ Direct(ret.log)[2].ok
    /\ ret.ok = FALSE /\ ret.err = Nil

\* A call on a.Not().Not(): the log is the call, the inner negation, then a.
DoubleNegation ==
    /\ CallOn({"not"})
    /\ heap[heap[ret.node].condition].kind = "not"

\* C6 as claimed: a.Not().Not() returns the same (bool, error) pair as a.
C6_DoubleNegationSamePair ==
    DoubleNegation =>
        /\ ret.log[3].node = heap[heap[ret.node].condition].condition
        /\ ret.ok = ret.log[3].ok
        /\ ret.err = ret.log[3].err

\* C6 amended: a.Not().Not() returns a's error and, when a returns no
\* error, a's bool; when a returns an error the bool is false whatever bool
\* a returned beside it.
C6_DoubleNegation ==
    DoubleNegation =>
        /\ ret.log[3].node = heap[heap[ret.node].condition].condition
        /\ ret.err = ret.log[3].err
        /\ ret.ok = (ret.log[3].err = Nil /\ ret.log[3].ok)

\* a returns true without error and so does a.Not().Not().
C6_Witness ==
    /\ DoubleNegation
    /\ Len(ret.log) = 3
    /\ ret.log[3].ok /\ ret.log[3].err = Nil
    /\ ret.ok = TRUE /\ ret.err = Nil

\* C7: Describe on A.And(B) renders the conjunction with the vocabulary's
\* current AND token: "(A AND B)" by default, "(A && B)" after
\* SetOperators("&&", "||", "!=", "!").
C7_DescribeUsesVocabulary ==
    (ret.op = "Describe" /\ heap[ret.node].kind = "and" /\ heap[ret.node].conditions = <<1, 2>>)
        => ret.text = "(A " \o operators.and \o " B)"

BuilderOps == {"And", "Or", "Xor", "Not"}

\* C8: no call changes a node that exists: every step leaves each existing
\* node with the same ordered children, a combinator call allocates exactly
\* one new node and returns it, any other call allocates nothing, and after
\* a combinator call every existing tree (sharing operands with the new one
\* or not) evaluates on every candidate and describes as it did before.
C8_NeverMutates ==
    [][ /\ Len(heap') >= Len(heap)
        /\ \A n \in 1..Len(heap) : heap'[n] = heap[n]
        /\ ret'.op \in BuilderOps => Len(heap') = Len(heap) + 1 /\ ret'.node = Len(heap')
        /\ ret'.op \notin BuilderOps => heap' = heap
        /\ heap' # heap =>
              \A n \in 1..Len(heap) :
                  /\ Describe(heap', n) = Describe(heap, n)
                  /\ \A x \in Candidates :
                        IsSatisfiedBy(heap', n, x, 0) = IsSatisfiedBy(heap, n, x, 0)
      ]_vars

\* Leaf 1 is an operand of two conjunctions, the second built by And on the
\* first, and the first is evaluated after the second was built.
C8_Witness ==
    /\ Len(heap) = NumLeaves + 2
    /\ heap[NumLeaves + 1].kind = "and"
    /\ heap[NumLeaves + 2].kind = "and"
    /\ heap[NumLeaves + 1].conditions[1] = 1
    /\ heap[NumLeaves + 2].conditions = <<NumLeaves + 1, 1>>
    /\ IsCall /\ ret.node = NumLeaves + 1
    /\ ret.ok = TRUE

\* a.And(b).And(c) or a.Or(b).Or(c), built on top of heap h; the root is the
\* last node.
Nested(h, kind, a, b, c) ==
    IF kind = "and"
    THEN LET inner == compositeAnd(h, a, b, <<>>) IN compositeAnd(inner, Len(inner), c, <<>>)
    ELSE LET inner == compositeOr(h, a, b, <<>>) IN compositeOr(inner, Len(inner), c, <<>>)

SameCall(h1, r1, h2, r2) ==
    /\ r1.ok = r2.ok
    /\ r1.err = r2.err
    /\ LeafCalls(h1, r1.log) = LeafCalls(h2, r2.log)

\* C9: the node a.And(b, c) returns evaluates on every candidate to the
\* same (bool, error) as a.And(b).And(c), invoking the same leaves in the
\* same order, and likewise for Or; every call made on a three-operand
\* conjunction or disjunction returned what the nesting of its operands
\* returns on the candidates the call can have been made on.
C9_VariadicEqualsNested ==
    /\ (ret.op \in {"And", "Or"} /\ Len(ret.others) = 1) =>
          LET kind == IF ret.op = "And" THEN "and" ELSE "or"
              nested == Nested(heap, kind, ret.self, ret.condition, ret.others[1]) IN
          \A x \in Candidates :
              SameCall(heap, IsSatisfiedBy(heap, ret.node, x, 0),
                       nested, IsSatisfiedBy(nested, Len(nested), x, 0))
    /\ (CallOn({"and", "or"}) /\ Len(heap[ret.node].conditions) = 3) =>
          LET c == heap[ret.node].conditions
              nested == Nested(heap, heap[ret.node].kind, c[1], c[2], c[3]) IN
          \A x \in Consistent(ret.log) :
              SameCall(heap, ret, nested, IsSatisfiedBy(nested, Len(nested), x, 0))

\* a.And(b, c) evaluated down to its third operand, which returns false.
C9_Witness ==
    /\ CallOn({"and"})
    /\ Len(heap[ret.node].conditions) = 3
    /\ Len(Direct(ret.log)) = 3
    /\ ~Direct(ret.log)[3].ok
    /\ ret.ok = FALSE /\ ret.err = Nil

\* The nodes holding the operands of xor node n the other way round.
Swapped(n) ==
    { m \in Nodes : /\ heap[m].kind = "xor"
                    /\ heap[m].left = heap[n].right
                    /\ heap[m].right = heap[n].left }

\* C10 as claimed: b.Xor(a) returns what a.Xor(b) returned, on every
\* candidate the call can have been made on.
C10_XorCommutes ==
    CallOn({"xor"}) =>
        \A m \in Swapped(ret.node) : \A x \in Consistent(ret.log) :
            LET r == IsSatisfiedBy(heap, m, x, 0) IN
            r.ok = ret.ok /\ r.err = ret.err

\* C10 amended: b.Xor(a) returns what a.Xor(b) returned unless a and b both
\* return errors and the two error values differ (each order then returns
\* its left operand's error).
C10_XorCommutesUnlessTwoErrors ==
    CallOn({"xor"}) =>
        \A m \in Swapped(ret.node) : \A x \in Consistent(ret.log) :
            LET r == IsSatisfiedBy(heap, m, x, 0)
                a == IsSatisfiedBy(heap, heap[ret.node].left, x, 0)
                b == IsSatisfiedBy(heap, heap[ret.node].right, x, 0) IN
            (a.err = Nil \/ b.err = Nil \/ a.err = b.err)
                => r.ok = ret.ok /\ r.err = ret.err

\* a.Xor(b) and b.Xor(a) both exist, a # b, and a.Xor(b) returned true.
C10_Witness ==
    /\ CallOn({"xor"})
    /\ heap[ret.node].left # heap[ret.node].right
    /\ Swapped(ret.node) # {}
    /\ ret.ok = TRUE /\ ret.err = Nil
====
